---- MODULE Spec2Model ----
(***************************************************************************)
(* Model of consumers/project_consumer_stcyr.py: a Kafka consumer that     *)
(* decodes JSON payloads, keeps a rolling window of the last MAX_POINTS    *)
(* (timestamp, sentiment) points in two deques and redraws a chart.        *)
(*                                                                         *)
(* A str is modelled as the sequence of the code points of its characters  *)
(* (Python's ord).  A payload is the sequence of JSON lexemes of the        *)
(* message text.  JSON numbers are fixed-point with one decimal: num = 5   *)
(* stands for 0.5.                                                         *)
(***************************************************************************)
EXTENDS Integers, Sequences, FiniteSets, TLC

VARIABLES pc, consumer, offset, msg, rec, outcome, timestamps, sentiments,
          tsSrc, sentSrc, hist, chart, failures, callAppends, callRedraws,
          redraws, processed, exitBy, raisedAt, closed, mainResult, late

vars == <<pc, consumer, offset, msg, rec, outcome, timestamps, sentiments,
          tsSrc, sentSrc, hist, chart, failures, callAppends, callRedraws,
          redraws, processed, exitBy, raisedAt, closed, mainResult, late>>

(***************************************************************************)
(* Bounds of the model.                                                    *)
(***************************************************************************)
\* envelopes the mixed feed yields at most
MaxMixed == 3
\* envelopes the edge feed yields at most
MaxEdge == 2
\* envelopes the sequential feed yields at most
MaxSeq == 60
\* print and renderer failures injected at most in one run
MaxFailures == 2

(***************************************************************************)
(* Program constant.                                                       *)
(***************************************************************************)
MAX_POINTS == 50

(***************************************************************************)
(* Text.                                                                   *)
(***************************************************************************)
\* the ASCII characters from the blank (code point 32) to the underscore (95),
\* and the lower-case letters (from 97), in the order of their code points
Symbols ==
    <<" ", "!", "\"", "#", "$", "%", "&", "'", "(", ")", "*", "+", ",", "-",
      ".", "/", "0", "1", "2", "3", "4", "5", "6", "7", "8", "9", ":", ";",
      "<", "=", ">", "?", "@", "A", "B", "C", "D", "E", "F", "G", "H", "I",
      "J", "K", "L", "M", "N", "O", "P", "Q", "R", "S", "T", "U", "V", "W",
      "X", "Y", "Z", "[", "\\", "]", "^", "_">>
Letters ==
    <<"a", "b", "c", "d", "e", "f", "g", "h", "i", "j", "k", "l", "m", "n",
      "o", "p", "q", "r", "s", "t", "u", "v", "w", "x", "y", "z">>
\* ord(c) of these characters
Ord ==
    [c \in {Symbols[i] : i \in 1..Len(Symbols)} |->
        31 + (CHOOSE i \in 1..Len(Symbols) : Symbols[i] = c)]
    @@ [c \in {Letters[i] : i \in 1..Len(Letters)} |->
        96 + (CHOOSE i \in 1..Len(Letters) : Letters[i] = c)]
\* the str made of the characters chars
Str(chars) == [i \in 1..Len(chars) |-> Ord[chars[i]]]

(***************************************************************************)
(* Python values.  Every value has the same record shape so that any two   *)
(* values can be compared.                                                 *)
(***************************************************************************)
PyVal(t, n, s, ks, xs) == [t |-> t, num |-> n, str |-> s, keys |-> ks, items |-> xs]
PyNone == PyVal("none", 0, <<>>, <<>>, <<>>)
PyBool(b) == PyVal("bool", IF b THEN 1 ELSE 0, <<>>, <<>>, <<>>)
PyNum(n) == PyVal("num", n, <<>>, <<>>, <<>>)
\* the floats float("nan"), float("inf") and float("-inf")
PyNaN == PyVal("nan", 0, <<>>, <<>>, <<>>)
PyInfinity == PyVal("inf", 1, <<>>, <<>>, <<>>)
PyNegInfinity == PyVal("inf", -1, <<>>, <<>>, <<>>)
PyStr(s) == PyVal("str", 0, s, <<>>, <<>>)
PyList(xs) == PyVal("list", 0, <<>>, <<>>, xs)
PyDict(ks, xs) == PyVal("dict", 0, <<>>, ks, xs)

\* bool(v): the truth value of a Python value
Truthy(v) ==
    CASE v.t = "none" -> FALSE
      [] v.t = "bool" -> v.num = 1
      [] v.t = "num" -> v.num # 0
      [] v.t \in {"nan", "inf"} -> TRUE
      [] v.t = "str" -> Len(v.str) > 0
      [] v.t = "list" -> Len(v.items) > 0
      [] v.t = "dict" -> Len(v.keys) > 0
      [] OTHER -> TRUE

\* d.get(key): the value of the last member named key, None when there is none
DictGet(d, key) ==
    LET hits == {i \in 1..Len(d.keys) : d.keys[i] = key}
    IN  IF hits = {} THEN PyNone
        ELSE d.items[CHOOSE i \in hits : \A j \in hits : j <= i]

(***************************************************************************)
(* json.loads over the lexemes of the text.                                *)
(***************************************************************************)
Tok(k, n, s) == [k |-> k, num |-> n, str |-> s]
LBrace == Tok("{", 0, <<>>)
RBrace == Tok("}", 0, <<>>)
LBracket == Tok("[", 0, <<>>)
RBracket == Tok("]", 0, <<>>)
Colon == Tok(":", 0, <<>>)
Comma == Tok(",", 0, <<>>)
TNull == Tok("null", 0, <<>>)
TTrue == Tok("true", 0, <<>>)
TFalse == Tok("false", 0, <<>>)
\* the constants NaN, Infinity and -Infinity, which the scanner accepts
TNaN == Tok("NaN", 0, <<>>)
TInfinity == Tok("Infinity", 0, <<>>)
TNegInfinity == Tok("-Infinity", 0, <<>>)
\* an integer literal of more than 4300 digits, the sign not counted
THugeInt == Tok("hugeint", 0, <<>>)
\* a run of characters that is no lexeme of the scanner, such as the word bad
TJunk == Tok("junk", 0, <<>>)
TNum(n) == Tok("num", n, <<>>)
TStr(s) == Tok("str", 0, s)

\* sys.getrecursionlimit(): the interpreter raises RecursionError when the depth
\* of calls, the frames of Python and the nested containers of the scanner
\* together, would reach it
RecursionLimit == 1000
\* the frames of json.loads, JSONDecoder.decode and JSONDecoder.raw_decode
JsonFrames == 3

\* err: "JSONDecodeError" for a text that is no JSON document, "RecursionError"
\* for containers nested too deep, "ValueError" for an integer literal that
\* int() refuses
ParseFail(err) == [ok |-> FALSE, err |-> err, val |-> PyNone, next |-> 0]
ParseOk(v, n) == [ok |-> TRUE, err |-> "none", val |-> v, next |-> n]
KindAt(toks, i) == IF i >= 1 /\ i <= Len(toks) THEN toks[i].k ELSE "eof"

RECURSIVE ParseValue(_, _, _)
RECURSIVE ParseMembers(_, _, _, _, _)
RECURSIVE ParseElements(_, _, _, _)

\* the value that starts at lexeme i, read at call depth depth
ParseValue(toks, i, depth) ==
    LET k == KindAt(toks, i)
    IN  CASE k = "num" -> ParseOk(PyNum(toks[i].num), i + 1)
          [] k = "hugeint" -> ParseFail("ValueError")
          [] k = "str" -> ParseOk(PyStr(toks[i].str), i + 1)
          [] k = "null" -> ParseOk(PyNone, i + 1)
          [] k = "true" -> ParseOk(PyBool(TRUE), i + 1)
          [] k = "false" -> ParseOk(PyBool(FALSE), i + 1)
          [] k = "NaN" -> ParseOk(PyNaN, i + 1)
          [] k = "Infinity" -> ParseOk(PyInfinity, i + 1)
          [] k = "-Infinity" -> ParseOk(PyNegInfinity, i + 1)
          [] k = "{" -> IF depth + 1 >= RecursionLimit THEN ParseFail("RecursionError")
                        ELSE IF KindAt(toks, i + 1) = "}"
                        THEN ParseOk(PyDict(<<>>, <<>>), i + 2)
                        ELSE ParseMembers(toks, i + 1, <<>>, <<>>, depth + 1)
          [] k = "[" -> IF depth + 1 >= RecursionLimit THEN ParseFail("RecursionError")
                        ELSE IF KindAt(toks, i + 1) = "]"
                        THEN ParseOk(PyList(<<>>), i + 2)
                        ELSE ParseElements(toks, i + 1, <<>>, depth + 1)
          [] OTHER -> ParseFail("JSONDecodeError")

ParseMembers(toks, i, ks, xs, depth) ==
    IF KindAt(toks, i) # "str" \/ KindAt(toks, i + 1) # ":"
    THEN ParseFail("JSONDecodeError")
    ELSE LET r == ParseValue(toks, i + 2, depth)
         IN  IF ~r.ok THEN r
             ELSE LET ks2 == Append(ks, toks[i].str)
                      xs2 == Append(xs, r.val)
                  IN  CASE KindAt(toks, r.next) = "," ->
                               ParseMembers(toks, r.next + 1, ks2, xs2, depth)
                        [] KindAt(toks, r.next) = "}" ->
                               ParseOk(PyDict(ks2, xs2), r.next + 1)
                        [] OTHER -> ParseFail("JSONDecodeError")

ParseElements(toks, i, xs, depth) ==
    LET r == ParseValue(toks, i, depth)
    IN  IF ~r.ok THEN r
        ELSE LET xs2 == Append(xs, r.val)
             IN  CASE KindAt(toks, r.next) = "," ->
                          ParseElements(toks, r.next + 1, xs2, depth)
                   [] KindAt(toks, r.next) = "]" ->
                          ParseOk(PyList(xs2), r.next + 1)
                   [] OTHER -> ParseFail("JSONDecodeError")

\* json.loads called with frames frames of Python in use, its caller's included;
\* text after the document is a JSONDecodeError
json_loads(toks, frames) ==
    LET r == ParseValue(toks, 1, frames + JsonFrames)
    IN  IF r.ok /\ r.next # Len(toks) + 1 THEN ParseFail("JSONDecodeError") ELSE r

(***************************************************************************)
(* datetime.strptime(text, "%Y-%m-%d %H:%M:%S"): _strptime compiles the    *)
(* format into the regular expression                                      *)
(*   (?P<Y>\d\d\d\d)-(?P<m>1[0-2]|0[1-9]|[1-9])                            *)
(*   -(?P<d>3[0-1]|[1-2]\d|0[1-9]|[1-9]| [1-9])\s+(?P<H>2[0-3]|[0-1]\d|\d)  *)
(*   :(?P<M>[0-5]\d|\d):(?P<S>6[0-1]|[0-5]\d|\d)                           *)
(* over str: \d is any Unicode decimal digit, \s any Unicode white space,  *)
(* a class such as [0-5] holds ASCII digits only; int() reads each field.  *)
(***************************************************************************)
\* the code point of the digit zero of every script that has decimal digits
\* (general category Nd, Unicode 14.0 of CPython 3.11); the digits one to nine
\* of the script follow it
DigitZeros ==
    {48, 1632, 1776, 1984, 2406, 2534, 2662, 2790, 2918, 3046, 3174, 3302,
     3430, 3558, 3664, 3792, 3872, 4160, 4240, 6112, 6160, 6470, 6608, 6784,
     6800, 6992, 7088, 7232, 7248, 42528, 43216, 43264, 43472, 43504, 43600,
     44016, 65296, 66720, 68912, 69734, 69872, 69942, 70096, 70384, 70736,
     70864, 71248, 71360, 71472, 71904, 72016, 72784, 73040, 73120, 92768,
     92864, 93008, 120782, 120792, 120802, 120812, 120822, 123200, 123632,
     125264, 130032}
\* \d
DigitChars == UNION {z..(z + 9) : z \in DigitZeros}
\* int(c) of a decimal digit
DigitValue == [c \in DigitChars |-> c - (CHOOSE z \in DigitZeros : c \in z..(z + 9))]
\* \s: tab to carriage return, the separators U+001C to U+001F, the blank,
\* U+0085, U+00A0, U+1680, U+2000 to U+200A, U+2028, U+2029, U+202F, U+205F, U+3000
Whitespace ==
    (9..13) \cup (28..32) \cup {133, 160, 5760} \cup (8192..8202)
    \cup {8232, 8233, 8239, 8287, 12288}

\* the character at position i, -1 past the end of the text
CharAt(s, i) == IF i >= 1 /\ i <= Len(s) THEN s[i] ELSE -1
\* \d at position i
IsDigitAt(s, i) == CharAt(s, i) \in DigitChars
\* the class [lo-hi] of ASCII digits at position i
InClass(s, i, lo, hi) == CharAt(s, i) \in (Ord["0"] + lo)..(Ord["0"] + hi)
Match(v, n) == [val |-> v, next |-> n]
\* the field read from two digits, from one digit
TwoDigits(s, i) == Match(10 * DigitValue[s[i]] + DigitValue[s[i + 1]], i + 2)
OneDigit(s, i) == Match(DigitValue[s[i]], i + 1)
\* the alternatives of a field: [a-b][c-d], [a-b]\d, [a-b] and \d
ClassClass(s, i, a, b, c, d) ==
    IF InClass(s, i, a, b) /\ InClass(s, i + 1, c, d) THEN {TwoDigits(s, i)} ELSE {}
ClassDigit(s, i, a, b) ==
    IF InClass(s, i, a, b) /\ IsDigitAt(s, i + 1) THEN {TwoDigits(s, i)} ELSE {}
Class(s, i, a, b) == IF InClass(s, i, a, b) THEN {OneDigit(s, i)} ELSE {}
Digit(s, i) == IF IsDigitAt(s, i) THEN {OneDigit(s, i)} ELSE {}

\* %Y: \d\d\d\d
MatchYear(s, i) ==
    IF \A j \in i..(i + 3) : IsDigitAt(s, j)
    THEN {Match(1000 * DigitValue[s[i]] + 100 * DigitValue[s[i + 1]]
                + 10 * DigitValue[s[i + 2]] + DigitValue[s[i + 3]], i + 4)}
    ELSE {}
\* %m: 1[0-2]|0[1-9]|[1-9]
MatchMonth(s, i) ==
    ClassClass(s, i, 1, 1, 0, 2) \cup ClassClass(s, i, 0, 0, 1, 9) \cup Class(s, i, 1, 9)
\* %d: 3[0-1]|[1-2]\d|0[1-9]|[1-9]| [1-9]
MatchDay(s, i) ==
    ClassClass(s, i, 3, 3, 0, 1) \cup ClassDigit(s, i, 1, 2)
    \cup ClassClass(s, i, 0, 0, 1, 9) \cup Class(s, i, 1, 9)
    \cup (IF CharAt(s, i) = Ord[" "] /\ InClass(s, i + 1, 1, 9)
          THEN {Match(DigitValue[s[i + 1]], i + 2)} ELSE {})
\* %H: 2[0-3]|[0-1]\d|\d
MatchHour(s, i) ==
    ClassClass(s, i, 2, 2, 0, 3) \cup ClassDigit(s, i, 0, 1) \cup Digit(s, i)
\* %M: [0-5]\d|\d
MatchMinute(s, i) == ClassDigit(s, i, 0, 5) \cup Digit(s, i)
\* %S: 6[0-1]|[0-5]\d|\d
MatchSecond(s, i) ==
    ClassClass(s, i, 6, 6, 0, 1) \cup ClassDigit(s, i, 0, 5) \cup Digit(s, i)
\* faulty variant: any character that is no digit passes for a separator
MatchLitAnySeparator(s, i, c) ==
    IF i >= 1 /\ i <= Len(s) /\ s[i] \notin DigitChars THEN {i + 1} ELSE {}
\* a literal character of the format
MatchLit(s, i, c) == IF CharAt(s, i) = c THEN {i + 1} ELSE {}
\* the blank of the format: \s+
MatchSpace(s, i) ==
    {j \in (i + 1)..(Len(s) + 1) : \A k \in i..(j - 1) : CharAt(s, k) \in Whitespace}

IsLeap(y) == (y % 4 = 0) /\ ((y % 100 # 0) \/ (y % 400 = 0))
DaysInMonth(y, m) ==
    IF m = 2 THEN (IF IsLeap(y) THEN 29 ELSE 28)
    ELSE IF m \in {4, 6, 9, 11} THEN 30 ELSE 31

DateTime(y, mo, d, h, mi, sec) ==
    [year |-> y, month |-> mo, day |-> d, hour |-> h, minute |-> mi, second |-> sec]
NoDateTime == DateTime(0, 0, 0, 0, 0, 0)

\* the constructor datetime(...) raises ValueError outside these ranges
ValidDateTime(dt) ==
    /\ dt.year >= 1 /\ dt.year <= 9999
    /\ dt.month >= 1 /\ dt.month <= 12
    /\ dt.day >= 1 /\ dt.day <= DaysInMonth(dt.year, dt.month)
    /\ dt.hour >= 0 /\ dt.hour <= 23
    /\ dt.minute >= 0 /\ dt.minute <= 59
    /\ dt.second >= 0 /\ dt.second <= 59

\* every way the format's regular expression matches the whole text, field by
\* field: ParseFromX continues at position i with the fields read so far
ParseFromSecond(s, i, y, mo, d, h, mi) ==
    {DateTime(y, mo, d, h, mi, x.val) :
        x \in {m \in MatchSecond(s, i) : m.next = Len(s) + 1}}
ParseFromMinute(s, i, y, mo, d, h) ==
    UNION {UNION {ParseFromSecond(s, c, y, mo, d, h, x.val) :
                    c \in MatchLit(s, x.next, Ord[":"])} : x \in MatchMinute(s, i)}
ParseFromHour(s, i, y, mo, d) ==
    UNION {UNION {ParseFromMinute(s, c, y, mo, d, x.val) :
                    c \in MatchLit(s, x.next, Ord[":"])} : x \in MatchHour(s, i)}
ParseFromDay(s, i, y, mo) ==
    UNION {UNION {ParseFromHour(s, c, y, mo, x.val) :
                    c \in MatchSpace(s, x.next)} : x \in MatchDay(s, i)}
ParseFromMonth(s, i, y) ==
    UNION {UNION {ParseFromDay(s, c, y, x.val) :
                    c \in MatchLit(s, x.next, Ord["-"])} : x \in MatchMonth(s, i)}
StrptimeMatches(s) ==
    UNION {UNION {ParseFromMonth(s, c, x.val) :
                    c \in MatchLit(s, x.next, Ord["-"])} : x \in MatchYear(s, 1)}

\* err is "TypeError" for an argument that is no str, "ValueError" for a text
\* that does not match the format or names no date and time
strptime(v) ==
    IF v.t # "str" THEN [ok |-> FALSE, err |-> "TypeError", dt |-> NoDateTime]
    ELSE LET ms == StrptimeMatches(v.str)
         IN  IF ms = {} THEN [ok |-> FALSE, err |-> "ValueError", dt |-> NoDateTime]
             ELSE LET dt == CHOOSE m \in ms : TRUE
                  IN  IF ValidDateTime(dt)
                      THEN [ok |-> TRUE, err |-> "none", dt |-> dt]
                      ELSE [ok |-> FALSE, err |-> "ValueError", dt |-> NoDateTime]

(***************************************************************************)
(* decode: lines 111-118 of process_message, up to the parsed timestamp,   *)
(* with frames frames of Python in use, that of process_message included.  *)
(* kind: "ok", or the branch that rejects the payload: "invalid_json" is    *)
(* the handler of line 131, "error" the handler of line 133.               *)
(***************************************************************************)
\* the frames in use inside process_message when the module runs as a script:
\* the module, main and process_message (python -m adds two of runpy)
ScriptFrames == 3
KeySentiment == Str(<<"s", "e", "n", "t", "i", "m", "e", "n", "t">>)
KeyTimestamp == Str(<<"t", "i", "m", "e", "s", "t", "a", "m", "p">>)

Decoded(kind, ts, s) == [kind |-> kind, ts |-> ts, sentiment |-> s]
NoRec == Decoded("none", NoDateTime, PyNone)

Decode(message, frames) ==
    LET r == json_loads(message, frames)
    IN  IF ~r.ok
        THEN Decoded(IF r.err = "JSONDecodeError" THEN "invalid_json" ELSE "error",
                     NoDateTime, PyNone)
        ELSE IF r.val.t # "dict" THEN Decoded("not_dict", NoDateTime, PyNone)
        ELSE LET sentiment == DictGet(r.val, KeySentiment)
                 timestamp_str == DictGet(r.val, KeyTimestamp)
             IN  IF sentiment.t # "none" /\ Truthy(timestamp_str)
                 THEN LET p == strptime(timestamp_str)
                      IN  IF p.ok THEN Decoded("ok", p.dt, sentiment)
                          ELSE Decoded("error", NoDateTime, PyNone)
                 ELSE Decoded("missing", NoDateTime, PyNone)

(***************************************************************************)
(* The rolling window: deque(maxlen=MAX_POINTS).append                     *)
(***************************************************************************)
\* faulty variant: a list in place of the bounded deque
DequeAppendUnbounded(d, x) == Append(d, x)

DequeAppend(d, x) ==
    LET a == Append(d, x)
    IN  IF Len(a) > MAX_POINTS THEN Tail(a) ELSE a

Point(ts, s) == [ts |-> ts, sentiment |-> s]
Plot(xs, ys) == [xs |-> xs, ys |-> ys]
\* the axes after ax.clear(), and after plt.subplots()
EmptyChart == Plot(<<>>, <<>>)

(***************************************************************************)
(* The envelopes the consumer can yield.  The mixed feed yields any of the *)
(* payloads below; the sequential feed yields one well-formed payload per  *)
(* second, numbered by offset.                                             *)
(***************************************************************************)
\* a number below 100 written with two ASCII digits
Pad2(n) == <<Ord["0"] + (n \div 10), Ord["0"] + (n % 10)>>
Text_2024_01_01 == Str(<<"2", "0", "2", "4", "-", "0", "1", "-", "0", "1">>)
Text_10_00_00 == Str(<<"1", "0", ":", "0", "0", ":", "0", "0">>)
Text_10_00_05 == Str(<<"1", "0", ":", "0", "0", ":", "0", "5">>)

Object2(k1, v1, k2, v2) ==
    <<LBrace, TStr(k1), Colon, v1, Comma, TStr(k2), Colon, v2, RBrace>>
Object1(k1, v1) == <<LBrace, TStr(k1), Colon, v1, RBrace>>
Message(s, t) == Object2(KeySentiment, s, KeyTimestamp, t)

\* {"sentiment": 0.5, "timestamp": "2024-01-01 10:00:00"}
PayloadFirst == Message(TNum(5), TStr(Text_2024_01_01 \o Str(<<" ">>) \o Text_10_00_00))
\* {"sentiment": -0.2, "timestamp": "2024-01-01 10:00:05"}
PayloadSecond == Message(TNum(-2), TStr(Text_2024_01_01 \o Str(<<" ">>) \o Text_10_00_05))
\* {"sentiment": 0, "timestamp": "2023-12-31 23:59:59"}: zero, and earlier in time
PayloadZeroEarlier ==
    Message(TNum(0), TStr(Str(<<"2", "0", "2", "3", "-", "1", "2", "-", "3", "1", " ",
                                "2", "3", ":", "5", "9", ":", "5", "9">>)))
\* {"sentiment": NaN, "timestamp": "2024-01-01\r10:00:05"} with the year in
\* fullwidth digits (U+FF12 ...) and the last digit the Arabic-Indic five (U+0665)
PayloadNaNOtherDigits ==
    Message(TNaN, TStr(<<65298, 65296, 65298, 65300>>
                       \o Str(<<"-", "0", "1", "-", "0", "1">>) \o <<13>>
                       \o Str(<<"1", "0", ":", "0", "0", ":", "0">>) \o <<1637>>))
\* {"sentiment": <an integer of 5000 digits>, "timestamp": "2024-01-01 10:00:00"}
PayloadHugeInt ==
    Message(THugeInt, TStr(Text_2024_01_01 \o Str(<<" ">>) \o Text_10_00_00))
\* {bad json
PayloadBadJson == <<LBrace, TJunk, TJunk>>
\* [0.5]
PayloadList == <<LBracket, TNum(5), RBracket>>
\* {"timestamp": "2024-01-01 10:00:00"}
PayloadNoSentiment ==
    Object1(KeyTimestamp, TStr(Text_2024_01_01 \o Str(<<" ">>) \o Text_10_00_00))
\* {"sentiment": null, "timestamp": "2024-01-01 10:00:00"}
PayloadNullSentiment ==
    Message(TNull, TStr(Text_2024_01_01 \o Str(<<" ">>) \o Text_10_00_00))
\* {"sentiment": 0.5}
PayloadNoTimestamp == Object1(KeySentiment, TNum(5))
\* {"sentiment": 0.5, "timestamp": ""}
PayloadEmptyTimestamp == Message(TNum(5), TStr(<<>>))
\* {"sentiment": 0.5, "timestamp": "2024/01/01 10:00:00"}
PayloadSlashes ==
    Message(TNum(5), TStr(Str(<<"2", "0", "2", "4", "/", "0", "1", "/", "0", "1", " ">>)
                          \o Text_10_00_00))
\* {"sentiment": 0.5, "timestamp": "2024-02-30 10:00:00"}: no such day
PayloadNoSuchDay ==
    Message(TNum(5), TStr(Str(<<"2", "0", "2", "4", "-", "0", "2", "-", "3", "0", " ">>)
                          \o Text_10_00_00))
\* {"sentiment": 0.5, "timestamp": 5}
PayloadNumberTimestamp == Message(TNum(5), TNum(50))

MixedPayloads ==
    {PayloadFirst, PayloadSecond, PayloadHugeInt, PayloadBadJson, PayloadSlashes}
\* the edge feed: the lenient and the remaining rejected payloads
EdgePayloads ==
    {PayloadZeroEarlier, PayloadNaNOtherDigits, PayloadList,
     PayloadNoSentiment, PayloadNullSentiment, PayloadNoTimestamp,
     PayloadEmptyTimestamp, PayloadNoSuchDay, PayloadNumberTimestamp}

\* the sequential feed's payload at offset k: sentiment cycles through -1.0 .. 1.0,
\* the timestamp is 2024-01-01 10:00:00 plus k seconds
SeqSentiment(k) == (k % 21) - 10
SeqDateTime(k) == DateTime(2024, 1, 1, 10, k \div 60, k % 60)
SeqPayload(k) ==
    Message(TNum(SeqSentiment(k)),
            TStr(Text_2024_01_01 \o Str(<<" ", "1", "0", ":">>) \o Pad2(k \div 60)
                 \o Str(<<":">>) \o Pad2(k % 60)))

Feeds == {"mixed", "edge", "sequential"}
FeedLimit(feed) ==
    CASE feed = "mixed" -> MaxMixed
      [] feed = "edge" -> MaxEdge
      [] OTHER -> MaxSeq
FeedPayloads(feed, k) ==
    CASE feed = "mixed" -> MixedPayloads
      [] feed = "edge" -> EdgePayloads
      [] OTHER -> {SeqPayload(k)}

\* every payload a feed can yield, and Decode tabulated over them
Payloads == MixedPayloads \cup EdgePayloads \cup {SeqPayload(k) : k \in 0..MaxSeq}
DecodeOf == [p \in Payloads |-> Decode(p, ScriptFrames)]

Envelope(value, off) == [value |-> value, offset |-> off]
NoMsg == Envelope(<<>>, -1)

(***************************************************************************)
(* The program.  pc is the place of control:                               *)
(*   main, try, iter, read                 main, lines 144-156             *)
(*   decode, append_ts, append_s, log, pm_log   process_message, 109-134   *)
(*   clear, plot, show                     update_chart, lines 80-94       *)
(*   except_kbd, except_exc, finally, end, done   main, lines 157-165      *)
(* late is the place of a KeyboardInterrupt raised outside the try body,    *)
(* before it is entered or after the loop has ended; "none" otherwise.     *)
(***************************************************************************)
\* the places inside the try body of main (lines 153-156)
LoopPcs ==
    {"iter", "read", "decode", "append_ts", "append_s", "log", "clear", "plot", "show",
     "pm_log"}
\* the places inside process_message
ProcessPcs ==
    {"decode", "append_ts", "append_s", "log", "clear", "plot", "show", "pm_log"}
\* the places inside update_chart
ChartPcs == {"clear", "plot", "show"}
\* the places of main before the try statement (lines 144-150): at "try" the
\* consumer is acquired and the try of line 152 is not yet entered
EntryPcs == {"main", "try"}

Init ==
    /\ pc = "main"
    /\ consumer = "none"
    /\ offset = 0
    /\ msg = NoMsg
    /\ rec = NoRec
    /\ outcome = "none"
    /\ timestamps = <<>>
    /\ sentiments = <<>>
    /\ tsSrc = <<>>
    /\ sentSrc = <<>>
    /\ hist = <<>>
    /\ chart = EmptyChart
    /\ failures = 0
    /\ callAppends = 0
    /\ callRedraws = 0
    /\ redraws = 0
    /\ processed = 0
    /\ exitBy = "none"
    /\ raisedAt = "none"
    /\ closed = 0
    /\ mainResult = "running"
    /\ late = "none"

window == <<timestamps, sentiments, tsSrc, sentSrc, hist>>
call == <<msg, rec, outcome, callAppends, callRedraws>>
exit == <<exitBy, raisedAt, closed, mainResult, late>>

\* lines 144-150: consumer = create_kafka_consumer(topic, group_id)
Acquire ==
    /\ pc = "main"
    /\ consumer' \in Feeds
    /\ pc' = "try"
    /\ UNCHANGED <<offset, window, call, chart, failures, redraws, processed, exit>>

\* lines 152-153: enter the try statement and start iterating the consumer
EnterTry ==
    /\ pc = "try"
    /\ pc' = "iter"
    /\ UNCHANGED <<consumer, offset, window, call, chart, failures, redraws,
                   processed, exit>>

\* line 153: the consumer yields the next envelope
Yield ==
    /\ pc = "iter"
    /\ offset < FeedLimit(consumer)
    /\ \E p \in FeedPayloads(consumer, offset) : msg' = Envelope(p, offset)
    /\ offset' = offset + 1
    /\ rec' = NoRec
    /\ outcome' = "none"
    /\ callAppends' = 0
    /\ callRedraws' = 0
    /\ pc' = "read"
    /\ UNCHANGED <<consumer, window, chart, failures, redraws, processed, exit>>

\* line 153: the consumer is exhausted (StopIteration ends the for loop)
Exhausted ==
    /\ pc = "iter"
    /\ exitBy' = "exhausted"
    /\ pc' = "finally"
    /\ UNCHANGED <<consumer, offset, window, call, chart, failures, redraws,
                   processed, raisedAt, closed, mainResult, late>>

\* line 153: pulling the next envelope raises an Exception
PullFails ==
    /\ pc = "iter"
    /\ exitBy' = "error"
    /\ raisedAt' = "iter"
    /\ pc' = "except_exc"
    /\ UNCHANGED <<consumer, offset, window, call, chart, failures, redraws,
                   processed, closed, mainResult, late>>

\* lines 154-156: read the value and the offset, log, call process_message
Read ==
    /\ pc = "read"
    /\ processed' = processed + 1
    /\ pc' = "decode"
    /\ UNCHANGED <<consumer, offset, window, call, chart, failures, redraws, exit>>

\* lines 154-155: reading the envelope or logging it raises an Exception
ReadFails ==
    /\ pc = "read"
    /\ exitBy' = "error"
    /\ raisedAt' = "read"
    /\ pc' = "except_exc"
    /\ UNCHANGED <<consumer, offset, window, call, chart, failures, redraws,
                   processed, closed, mainResult, late>>

\* lines 110-118: parse, check the shape and the fields, parse the timestamp
DecodeMessage ==
    /\ pc = "decode"
    /\ rec' = DecodeOf[msg.value]
    /\ IF rec'.kind = "ok"
       THEN pc' = "append_ts" /\ outcome' = outcome
       ELSE pc' = "pm_log" /\ outcome' = rec'.kind
    /\ UNCHANGED <<consumer, offset, msg, callAppends, callRedraws, window, chart,
                   failures, redraws, processed, exit>>

\* line 119: timestamps.append(ts)
AppendTimestamp ==
    /\ pc = "append_ts"
    /\ timestamps' = DequeAppend(timestamps, rec.ts)
    /\ tsSrc' = DequeAppend(tsSrc, msg.offset)
    /\ pc' = "append_s"
    /\ UNCHANGED <<consumer, offset, call, sentiments, sentSrc, hist, chart,
                   failures, redraws, processed, exit>>

\* line 120: sentiments.append(sentiment)
AppendSentiment ==
    /\ pc = "append_s"
    /\ sentiments' = DequeAppend(sentiments, rec.sentiment)
    /\ sentSrc' = DequeAppend(sentSrc, msg.offset)
    /\ hist' = Append(hist, Point(rec.ts, rec.sentiment))
    /\ callAppends' = callAppends + 1
    /\ pc' = "log"
    /\ UNCHANGED <<consumer, offset, msg, rec, outcome, callRedraws, timestamps,
                   tsSrc, chart, failures, redraws, processed, exit>>

\* lines 122-124: log and print the point, call update_chart
LogPoint ==
    /\ pc = "log"
    /\ callRedraws' = callRedraws + 1
    /\ pc' = "clear"
    /\ UNCHANGED <<consumer, offset, msg, rec, outcome, callAppends, window, chart,
                   failures, redraws, processed, exit>>

\* lines 123, 133-134: print raises an Exception, as UnicodeEncodeError does on a
\* stdout that cannot encode the text; it is caught in process_message and
\* update_chart is not called
PrintFails ==
    /\ pc = "log"
    /\ failures < MaxFailures
    /\ failures' = failures + 1
    /\ outcome' = "print_failed"
    /\ pc' = "pm_log"
    /\ UNCHANGED <<consumer, offset, msg, rec, callAppends, callRedraws, window, chart,
                   redraws, processed, exit>>

\* line 82: ax.clear()
ChartClear ==
    /\ pc = "clear"
    /\ chart' = EmptyChart
    /\ pc' = "plot"
    /\ UNCHANGED <<consumer, offset, call, window, failures, redraws, processed, exit>>

\* line 83: ax.plot(timestamps, sentiments)
ChartPlot ==
    /\ pc = "plot"
    /\ chart' = Plot(timestamps, sentiments)
    /\ pc' = "show"
    /\ UNCHANGED <<consumer, offset, call, window, failures, redraws, processed, exit>>

\* lines 85-94: labels, ticks, layout, plt.draw(), plt.pause(0.01); update_chart
\* and process_message return
ChartShow ==
    /\ pc = "show"
    /\ redraws' = redraws + 1
    /\ outcome' = "ok"
    /\ pc' = "iter"
    /\ UNCHANGED <<consumer, offset, msg, rec, callAppends, callRedraws, window, chart,
                   failures, processed, exit>>

\* faulty variant: the handler takes the point back when the redraw fails
RedrawFailsRollsBack ==
    /\ pc \in ChartPcs
    /\ failures < MaxFailures
    /\ failures' = failures + 1
    /\ outcome' = "redraw_failed"
    /\ timestamps' = SubSeq(timestamps, 1, Len(timestamps) - 1)
    /\ sentiments' = SubSeq(sentiments, 1, Len(sentiments) - 1)
    /\ tsSrc' = SubSeq(tsSrc, 1, Len(tsSrc) - 1)
    /\ sentSrc' = SubSeq(sentSrc, 1, Len(sentSrc) - 1)
    /\ pc' = "pm_log"
    /\ UNCHANGED <<consumer, offset, msg, rec, callAppends, callRedraws, hist, chart,
                   redraws, processed, exit>>

\* lines 82-94, 133-134: a call of update_chart raises an Exception, caught in
\* process_message; the axes stay as the calls before it left them
RedrawFails ==
    /\ pc \in ChartPcs
    /\ failures < MaxFailures
    /\ failures' = failures + 1
    /\ outcome' = "redraw_failed"
    /\ pc' = "pm_log"
    /\ UNCHANGED <<consumer, offset, msg, rec, callAppends, callRedraws, window, chart,
                   redraws, processed, exit>>

\* faulty variant: a decode failure is raised again and reaches main
LogSkippedRaises ==
    /\ pc = "pm_log"
    /\ IF outcome \in {"invalid_json", "not_dict", "missing", "error"}
       THEN exitBy' = "error" /\ raisedAt' = "pm_log" /\ pc' = "except_exc"
       ELSE pc' = "iter" /\ UNCHANGED <<exitBy, raisedAt>>
    /\ UNCHANGED <<consumer, offset, window, call, chart, failures, redraws,
                   processed, closed, mainResult, late>>

\* faulty variant: the loop is left after a skipped message
LogSkippedBreaks ==
    /\ pc = "pm_log"
    /\ pc' = "finally"
    /\ UNCHANGED <<consumer, offset, window, call, chart, failures, redraws,
                   processed, exit>>

\* lines 127, 129, 132, 134: log why the message is skipped; return
LogSkipped ==
    /\ pc = "pm_log"
    /\ pc' = "iter"
    /\ UNCHANGED <<consumer, offset, window, call, chart, failures, redraws,
                   processed, exit>>

\* faulty variant: a bare except in process_message catches the KeyboardInterrupt
InterruptCaughtInProcess ==
    /\ pc \in EntryPcs \cup LoopPcs
    /\ IF pc \in LoopPcs
       THEN /\ exitBy' = "interrupt"
            /\ raisedAt' = pc
            /\ pc' = IF pc \in ProcessPcs THEN "pm_log" ELSE "except_kbd"
            /\ UNCHANGED <<mainResult, late>>
       ELSE /\ late' = pc
            /\ mainResult' = "raised"
            /\ pc' = "done"
            /\ UNCHANGED <<exitBy, raisedAt>>
    /\ UNCHANGED <<consumer, offset, window, call, chart, failures, redraws,
                   processed, closed>>

\* KeyboardInterrupt raised before the loop has ended: inside the try body it
\* is caught at line 157; before the try is entered no handler and no finally
\* block applies and main is left at once
Interrupt ==
    /\ pc \in EntryPcs \cup LoopPcs
    /\ IF pc \in LoopPcs
       THEN /\ exitBy' = "interrupt"
            /\ raisedAt' = pc
            /\ pc' = "except_kbd"
            /\ UNCHANGED <<mainResult, late>>
       ELSE /\ late' = pc
            /\ mainResult' = "raised"
            /\ pc' = "done"
            /\ UNCHANGED <<exitBy, raisedAt>>
    /\ UNCHANGED <<consumer, offset, window, call, chart, failures, redraws,
                   processed, closed>>

\* lines 157-158
ExceptKeyboardInterrupt ==
    /\ pc = "except_kbd"
    /\ pc' = "finally"
    /\ UNCHANGED <<consumer, offset, window, call, chart, failures, redraws,
                   processed, exit>>

\* lines 159-160
ExceptException ==
    /\ pc = "except_exc"
    /\ pc' = "finally"
    /\ UNCHANGED <<consumer, offset, window, call, chart, failures, redraws,
                   processed, exit>>

\* KeyboardInterrupt raised after the loop has ended: in a handler (lines 158,
\* 160) it leaves the handler and the finally block still runs; at line 162
\* before close() is called, or at lines 163-165, main is left at once
LateInterrupt ==
    /\ pc \in {"except_kbd", "except_exc", "finally", "end"}
    /\ late' = pc
    /\ IF pc \in {"except_kbd", "except_exc"}
       THEN pc' = "finally" /\ mainResult' = mainResult
       ELSE pc' = "done" /\ mainResult' = "raised"
    /\ UNCHANGED <<consumer, offset, window, call, chart, failures, redraws,
                   processed, exitBy, raisedAt, closed>>

\* lines 161-163: consumer.close(); a KeyboardInterrupt raised in a handler is
\* raised again when the finally block ends
Finally ==
    /\ pc = "finally"
    /\ closed' = closed + 1
    /\ IF late = "none"
       THEN pc' = "end" /\ mainResult' = mainResult
       ELSE pc' = "done" /\ mainResult' = "raised"
    /\ UNCHANGED <<consumer, offset, window, call, chart, failures, redraws,
                   processed, exitBy, raisedAt, late>>

\* line 165: main returns
End ==
    /\ pc = "end"
    /\ mainResult' = "returned"
    /\ pc' = "done"
    /\ UNCHANGED <<consumer, offset, window, call, chart, failures, redraws,
                   processed, exitBy, raisedAt, closed, late>>

Next ==
    \/ Acquire
    \/ EnterTry
    \/ Yield
    \/ Exhausted
    \/ PullFails
    \/ Read
    \/ ReadFails
    \/ DecodeMessage
    \/ AppendTimestamp
    \/ AppendSentiment
    \/ LogPoint
    \/ PrintFails
    \/ ChartClear
    \/ ChartPlot
    \/ ChartShow
    \/ RedrawFails
    \/ LogSkipped
    \/ Interrupt
    \/ ExceptKeyboardInterrupt
    \/ ExceptException
    \/ LateInterrupt
    \/ Finally
    \/ End

Spec == Init /\ [][Next]_vars

\* the steps the interpreter takes on its own: every statement of main,
\* process_message and update_chart that waits for nothing outside the process
Progress ==
    \/ EnterTry
    \/ Read
    \/ DecodeMessage
    \/ AppendTimestamp
    \/ AppendSentiment
    \/ LogPoint
    \/ ChartClear
    \/ ChartPlot
    \/ ChartShow
    \/ LogSkipped
    \/ ExceptKeyboardInterrupt
    \/ ExceptException
    \/ Finally
    \/ End
\* the broker answers: the consumer is created, and the iteration of line 153
\* yields an envelope or ends
Delivery == Acquire \/ Yield \/ Exhausted

\* the interpreter keeps running; the iteration of line 153 may block for ever
FairSpec == Spec /\ WF_vars(Progress)
\* the interpreter keeps running and the consumer yields a finite sequence of
\* envelopes and then is exhausted
FiniteFeedSpec == FairSpec /\ WF_vars(Delivery)

(***************************************************************************)
(* Vocabulary of the properties.                                           *)
(***************************************************************************)
Min(a, b) == IF a <= b THEN a ELSE b
Last(q) == q[Len(q)]
\* the outcomes of process_message that reject the payload
DecodeFailures == {"invalid_json", "not_dict", "missing", "error"}
\* the places after the loop
ExitPcs == {"except_kbd", "except_exc", "finally", "end", "done"}
\* process_message has returned from handling msg
Returned == pc = "iter" /\ msg # NoMsg
\* a KeyboardInterrupt or the pending append separates line 119 from line 120
Torn == pc = "append_s" \/ (exitBy = "interrupt" /\ raisedAt = "append_s")
FirstDateTime == DateTime(2024, 1, 1, 10, 0, 0)
SecondDateTime == DateTime(2024, 1, 1, 10, 0, 5)
\* the payloads the mixed feed holds that the decoder must reject
RejectedPayloads ==
    {PayloadBadJson, PayloadList, PayloadNoSentiment, PayloadNullSentiment,
     PayloadNoTimestamp, PayloadEmptyTimestamp, PayloadSlashes}
\* the failures process_message catches after the point has been appended
LateFailures == {"print_failed", "redraw_failed"}

\* a text of the exact shape YYYY-MM-DD HH:MM:SS, zero-padded, naming a date and
\* time of the calendar; read off by position, independently of strptime
NumAt(s, i, n) ==
    IF n = 4 THEN 1000 * DigitValue[s[i]] + 100 * DigitValue[s[i + 1]]
                  + 10 * DigitValue[s[i + 2]] + DigitValue[s[i + 3]]
    ELSE 10 * DigitValue[s[i]] + DigitValue[s[i + 1]]
ReadByPosition(s) ==
    DateTime(NumAt(s, 1, 4), NumAt(s, 6, 2), NumAt(s, 9, 2),
             NumAt(s, 12, 2), NumAt(s, 15, 2), NumAt(s, 18, 2))
WellFormedTimestamp(s) ==
    /\ Len(s) = 19
    /\ s[5] = Ord["-"] /\ s[8] = Ord["-"] /\ s[11] = Ord[" "]
    /\ s[14] = Ord[":"] /\ s[17] = Ord[":"]
    /\ \A i \in (1..19) \ {5, 8, 11, 14, 17} : s[i] \in Ord["0"]..Ord["9"]
    /\ ValidDateTime(ReadByPosition(s))
\* {"sentiment": <number>, "timestamp": "<well-formed text>"}; an integer of
\* any number of digits is a number
WellFormedPayload(toks) ==
    /\ Len(toks) = 9
    /\ toks[4].k \in {"num", "hugeint"}
    /\ toks[8].k = "str"
    /\ toks = Message(toks[4], toks[8])
    /\ WellFormedTimestamp(toks[8].str)

(***************************************************************************)
(* C1: whenever no append is half done, the window holds exactly the last  *)
(* min(n, MAX_POINTS) of the n points appended so far, in arrival order;   *)
(* each deque never holds more than MAX_POINTS; in the sequential feed the *)
(* points appended are those of the envelopes yielded, so that after 60    *)
(* envelopes the window holds points 11 to 60.                             *)
(***************************************************************************)
C1_RollingWindow ==
    /\ Len(timestamps) <= MAX_POINTS
    /\ Len(sentiments) <= MAX_POINTS
    /\ ~Torn =>
         LET n == Len(hist)
             k == Min(n, MAX_POINTS)
         IN  /\ Len(timestamps) = k
             /\ Len(sentiments) = k
             /\ \A i \in 1..k :
                    /\ timestamps[i] = hist[n - k + i].ts
                    /\ sentiments[i] = hist[n - k + i].sentiment
    /\ (consumer = "sequential" /\ pc = "iter") =>
         /\ Len(hist) = offset
         /\ \A i \in 1..Len(hist) :
                hist[i] = Point(SeqDateTime(i - 1), PyNum(SeqSentiment(i - 1)))

C1_Witness ==
    /\ consumer = "sequential"
    /\ pc = "iter"
    /\ offset = 60
    /\ Len(timestamps) = 50
    /\ Len(sentiments) = 50
    /\ timestamps[1] = SeqDateTime(10)
    /\ sentiments[1] = PyNum(SeqSentiment(10))
    /\ timestamps[50] = SeqDateTime(59)

(***************************************************************************)
(* C2: whenever process_message is not executing, timestamps and           *)
(* sentiments have equal length and hold, index by index, values of the    *)
(* same message.                                                           *)
(***************************************************************************)
C2_AlignedOutsideProcess ==
    pc \notin ProcessPcs =>
        /\ Len(timestamps) = Len(sentiments)
        /\ tsSrc = sentSrc

(***************************************************************************)
(* C3 as stated: once main has acquired the consumer, close() is invoked   *)
(* exactly once on every execution, however the loop ends: it is never     *)
(* invoked before the loop has ended, never twice, and main never ends     *)
(* with an acquired consumer that was not closed.                          *)
(***************************************************************************)
C3_ClosedExactlyOnce ==
    /\ closed <= 1
    /\ pc \in EntryPcs \cup LoopPcs \cup {"except_kbd", "except_exc", "finally"}
          => closed = 0
    /\ (pc \in {"end", "done"} /\ consumer # "none") => closed = 1

(***************************************************************************)
(* C4: a decode failure of any kind is logged inside process_message,      *)
(* which returns to the loop; the loop ends with an error only from a      *)
(* failure outside process_message; every envelope yielded is handed to    *)
(* process_message; after two valid payloads, "{bad json" leaves the       *)
(* window with the two points in order.                                    *)
(***************************************************************************)
C4_DecodeFailureSkipped ==
    /\ [][/\ (pc = "decode" /\ rec'.kind \in DecodeFailures) => pc' = "pm_log"
          /\ (pc = "pm_log" /\ outcome \in DecodeFailures /\ exitBy' = exitBy)
                => pc' = "iter"
          /\ (pc \in {"decode", "pm_log"} /\ msg.value = PayloadBadJson
              /\ msg.offset = 2 /\ tsSrc = <<0, 1>>
              /\ timestamps = <<FirstDateTime, SecondDateTime>>
              /\ sentiments = <<PyNum(5), PyNum(-2)>>)
                => /\ timestamps' = <<FirstDateTime, SecondDateTime>>
                   /\ sentiments' = <<PyNum(5), PyNum(-2)>>
                   /\ (exitBy' = exitBy => pc' \in {"pm_log", "iter"})]_vars
    /\ [](exitBy = "error" => raisedAt \in {"iter", "read"})
    /\ [](pc = "iter" => processed = offset)
    /\ [](pc = "pm_log" /\ msg.value \in RejectedPayloads => outcome \in DecodeFailures)

C4_Witness ==
    /\ pc = "iter"
    /\ msg = Envelope(PayloadBadJson, 2)
    /\ outcome = "invalid_json"
    /\ processed = 3
    /\ tsSrc = <<0, 1>>
    /\ timestamps = <<FirstDateTime, SecondDateTime>>
    /\ sentiments = <<PyNum(5), PyNum(-2)>>

(***************************************************************************)
(* C5: a call of process_message whose decoding fails changes neither      *)
(* deque and redraws nothing; the payloads named by the spec are among     *)
(* those whose decoding fails.                                             *)
(***************************************************************************)
C5_FailureLeavesWindow ==
    /\ [][((pc = "decode" /\ pc' = "pm_log")
           \/ (pc = "pm_log" /\ outcome \in DecodeFailures))
            => UNCHANGED <<timestamps, sentiments, tsSrc, sentSrc, hist, chart,
                           redraws, callAppends, callRedraws>>]_vars
    /\ []((pc \in {"pm_log", "iter"} /\ outcome \in DecodeFailures)
            => callAppends = 0 /\ callRedraws = 0)
    /\ []((pc \in ProcessPcs \ {"decode"} \/ Returned)
            /\ msg.value \in RejectedPayloads
                            \cup {PayloadNoSuchDay, PayloadNumberTimestamp, PayloadHugeInt}
            => outcome \in DecodeFailures /\ rec.kind = outcome)

C5_Witness ==
    /\ pc = "iter"
    /\ msg.value = PayloadSlashes
    /\ outcome = "error"
    /\ Len(timestamps) = 2
    /\ chart = Plot(timestamps, sentiments)

(***************************************************************************)
(* C6 as stated: every unexpected failure, raised while pulling an         *)
(* envelope, while reading it, or while the appended point is printed and   *)
(* the chart is redrawn, ends the loop in the handler of line 159.         *)
(***************************************************************************)
FailureRaised ==
    \/ (pc \in {"iter", "read"} /\ exitBy = "none" /\ exitBy' = "error")
    \/ (pc \in {"log"} \cup ChartPcs /\ failures' = failures + 1)

C6_EveryFailureEndsLoop == [][FailureRaised => pc' = "except_exc"]_vars

(***************************************************************************)
(* C7: after a KeyboardInterrupt raised anywhere inside the loop nothing   *)
(* more is pulled, decoded, appended or drawn; control is after the loop;  *)
(* main ends, and unless a further KeyboardInterrupt arrives after the     *)
(* loop has ended it has closed the consumer and returns normally.         *)
(***************************************************************************)
C7_InterruptStopsLoop ==
    /\ [][exitBy = "interrupt"
            => UNCHANGED <<offset, processed, msg, rec, outcome, timestamps,
                           sentiments, tsSrc, sentSrc, hist, chart, redraws>>]_vars
    /\ [](exitBy = "interrupt" => pc \in ExitPcs /\ raisedAt \in LoopPcs)
    /\ []((exitBy = "interrupt" /\ pc = "done" /\ late = "none")
            => mainResult = "returned" /\ closed = 1)
    /\ (exitBy = "interrupt" ~> pc = "done")

C7_Witness ==
    /\ pc = "done"
    /\ exitBy = "interrupt"
    /\ raisedAt = "decode"
    /\ late = "none"
    /\ mainResult = "returned"
    /\ offset < FeedLimit(consumer)

(***************************************************************************)
(* C8 as stated: for every payload {"sentiment": <number>, "timestamp":    *)
(* <text of the shape YYYY-MM-DD HH:MM:SS naming a date and time>},        *)
(* decoding yields that number (zero and negative included) and that date  *)
(* and time; process_message appends exactly one point carrying them as    *)
(* the last element of both deques, calls update_chart exactly once and    *)
(* only after the append, and a completed redraw shows the window with     *)
(* that point last.  The sentiment of PayloadHugeInt is read for its kind  *)
(* only: its token carries no value.                                       *)
(***************************************************************************)
C8_WellFormedAppendedThenDrawn ==
    (msg # NoMsg /\ WellFormedPayload(msg.value)) =>
        LET t == ReadByPosition(msg.value[8].str)
            v == PyNum(msg.value[4].num)
        IN  /\ (pc \in ProcessPcs \ {"decode"} \/ Returned)
                  => rec = Decoded("ok", t, v)
            /\ pc \in {"decode", "append_ts", "append_s"}
                  => callAppends = 0 /\ callRedraws = 0
            /\ (pc \in {"log", "pm_log"} \cup ChartPcs \/ Returned)
                  => /\ callAppends = 1
                     /\ Last(timestamps) = t
                     /\ Last(sentiments) = v
                     /\ Last(tsSrc) = msg.offset
                     /\ Last(sentSrc) = msg.offset
            /\ pc = "log" => callRedraws = 0
            /\ (pc \in {"pm_log"} \cup ChartPcs \/ Returned) => callRedraws = 1
            /\ Returned => outcome \in {"ok", "redraw_failed"}
            /\ (Returned /\ outcome = "ok")
                  => /\ chart = Plot(timestamps, sentiments)
                     /\ Last(chart.xs) = t
                     /\ Last(chart.ys) = v

(***************************************************************************)
(* C9: every envelope yielded is handed to process_message once, in the    *)
(* order yielded; the loop is left only when the consumer is exhausted, on *)
(* a KeyboardInterrupt or on a failure raised while pulling or reading;    *)
(* and main always ends, with the consumer closed when no KeyboardInterrupt *)
(* arrived.                                                                *)
(***************************************************************************)
C9_EveryEnvelopeOnceThenEnd ==
    /\ [][/\ (pc = "iter" /\ pc' = "read")
                => msg'.offset = offset /\ offset' = offset + 1
          /\ (pc = "read" /\ pc' = "decode")
                => msg.offset = processed /\ processed' = processed + 1
          /\ pc # "read" => processed' = processed
          /\ (pc \in LoopPcs /\ pc' \notin LoopPcs)
                => \/ (pc = "iter" /\ exitBy' = "exhausted" /\ pc' = "finally")
                   \/ (exitBy' = "interrupt" /\ pc' = "except_kbd")
                   \/ (pc \in {"iter", "read"} /\ exitBy' = "error"
                       /\ pc' = "except_exc")]_vars
    /\ [](pc = "iter" => processed = offset)
    /\ [](exitBy = "exhausted" => processed = offset /\ raisedAt = "none")
    /\ []((pc = "done" /\ late = "none") => closed = 1 /\ mainResult = "returned")
    /\ <>(pc = "done")

C9_Witness ==
    /\ pc = "done"
    /\ exitBy = "exhausted"
    /\ late = "none"
    /\ mainResult = "returned"
    /\ consumer = "mixed"
    /\ processed = 3
    /\ offset = 3
    /\ Len(hist) = 1

(***************************************************************************)
(* C10: an appended point is never taken back: while it is printed, while  *)
(* the chart is redrawn and while a failure of either is logged the deques *)
(* do not change, so after a redraw that failed or was never started the   *)
(* point is the last of the window (the oldest point evicted if the window *)
(* was full) although no completed redraw has shown it; the completed      *)
(* redraws never outnumber the appended points.                            *)
(***************************************************************************)
C10_AppendSurvivesFailedRedraw ==
    /\ [][(pc \in {"log", "pm_log"} \cup ChartPcs)
            => UNCHANGED <<timestamps, sentiments, tsSrc, sentSrc, hist>>]_vars
    /\ [](redraws <= Len(hist))
    /\ []((pc \in {"pm_log", "iter"} /\ outcome \in LateFailures)
            => /\ callAppends = 1
               /\ Len(timestamps) = Min(Len(hist), MAX_POINTS)
               /\ Len(sentiments) = Min(Len(hist), MAX_POINTS)
               /\ Last(timestamps) = rec.ts
               /\ Last(sentiments) = rec.sentiment
               /\ Last(hist) = Point(rec.ts, rec.sentiment)
               /\ redraws < Len(hist))

C10_Witness ==
    /\ pc = "iter"
    /\ outcome = "redraw_failed"
    /\ Len(hist) = 51
    /\ Len(timestamps) = 50
    /\ timestamps[1] = SeqDateTime(1)
    /\ Last(timestamps) = SeqDateTime(50)
    /\ chart # Plot(timestamps, sentiments)
====
